---- MODULE Spec2Model ----
(***************************************************************************)
(* Model of src/app.py: the Wikipedia page-view comparison handler.        *)
(*                                                                         *)
(* Python strings are sequences of one-character strings, so that          *)
(* startswith, split, slicing and strptime are computed character by       *)
(* character.  A Python call either returns a value or raises: Ok(v) and   *)
(* Raise(type, message).  A message is the sequence of the parts an        *)
(* f-string concatenates.                                                  *)
(***************************************************************************)
EXTENDS Integers, Sequences, FiniteSets, TLC

VARIABLES
    workers,      \* per hosting thread: the wrapped_process invocation it runs,
                  \* with the requests it has issued and the failure it met
    cache,        \* functools.cache of get_pageviews: key -> returned list
    returned,     \* keys for which some get_pageviews call has returned a list
    raised,       \* keys for which some get_pageviews call has raised
    remote,       \* the answers a stable endpoint has given, per request URL
    endpoint,     \* "stable": one answer per URL throughout; "changing": any
    submissions,  \* submit.click activations so far
    hosting,      \* "serial": one handler at a time; "parallel": two threads
    arg,          \* argument of the pure function under check
    ret           \* its result

vars == <<workers, cache, returned, raised, remote, submissions, hosting, endpoint, arg, ret>>

----------------------------------------------------------------------------
(* Bounds *)

MaxSubmissions == 2
MaxRem == 5
MaxTail == 4
MaxSeries == 2

----------------------------------------------------------------------------
(* Python values *)

Ok(v) == [ok |-> TRUE, val |-> v, exc |-> "", msg |-> <<>>]

Raise(type, message) == [ok |-> FALSE, val |-> <<>>, exc |-> type, msg |-> message]

\* The object None, where a string is expected.
NoneVal == <<"<None>">>

NotRun == [ok |-> FALSE, val |-> <<>>, exc |-> "<not run>", msg |-> <<>>]

RECURSIVE SeqsUpTo(_, _)
SeqsUpTo(S, n) ==
    IF n = 0 THEN {<<>>}
    ELSE LET shorter == SeqsUpTo(S, n - 1)
         IN  shorter \cup {Append(s, x) : s \in shorter, x \in S}

----------------------------------------------------------------------------
(* extract_title *)

Prefix ==
    <<"h","t","t","p","s",":","/","/","e","n",".","w","i","k","i","p","e","d",
      "i","a",".","o","r","g","/","w","i","k","i","/">>

WikiSep == <<"w","i","k","i","/">>

MsgUrl == <<"URL must be from en.wikipedia.org">>

MsgNoneStartswith == <<"'NoneType' object has no attribute 'startswith'">>

\* str.startswith
startswith(s, p) == Len(s) >= Len(p) /\ SubSeq(s, 1, Len(p)) = p

\* str.find from position from (1-based); 0 when sep does not occur
RECURSIVE find(_, _, _)
find(s, sep, from) ==
    IF from + Len(sep) - 1 > Len(s) THEN 0
    ELSE IF SubSeq(s, from, from + Len(sep) - 1) = sep THEN from
    ELSE find(s, sep, from + 1)

\* str.split(sep): the pieces between non-overlapping occurrences, left to right
RECURSIVE split(_, _)
split(s, sep) ==
    LET i == find(s, sep, 1)
    IN  IF i = 0 THEN <<s>>
        ELSE <<SubSeq(s, 1, i - 1)>> \o split(SubSeq(s, i + Len(sep), Len(s)), sep)

extract_title(url) ==
    IF url = NoneVal THEN Raise("AttributeError", MsgNoneStartswith)
    ELSE IF ~startswith(url, Prefix) THEN Raise("ValueError", MsgUrl)
    ELSE Ok(split(url, WikiSep)[2])

----------------------------------------------------------------------------
(* validate_date: datetime.strptime(date_str, '%Y%m%d') *)

MsgDate == <<"Date must be in YYYYMMDD format">>

Digits == {"0","1","2","3","4","5","6","7","8","9"}

DigitVal(c) ==
    CASE c = "0" -> 0 [] c = "1" -> 1 [] c = "2" -> 2 [] c = "3" -> 3
      [] c = "4" -> 4 [] c = "5" -> 5 [] c = "6" -> 6 [] c = "7" -> 7
      [] c = "8" -> 8 [] c = "9" -> 9

\* s[i] as a character, "" past the end
At(s, i) == IF i >= 1 /\ i <= Len(s) THEN s[i] ELSE ""

\* int() of a run of digits, leading blanks skipped
RECURSIVE ToInt(_)
ToInt(s) ==
    IF s = <<>> THEN 0
    ELSE IF s[Len(s)] = " " THEN 0
    ELSE 10 * ToInt(SubSeq(s, 1, Len(s) - 1)) + DigitVal(s[Len(s)])

\* %Y is \d\d\d\d : the position after the match at 1, or 0
MatchY(s) ==
    IF \A i \in 1..4 : At(s, i) \in Digits THEN 5 ELSE 0

\* %m is 1[0-2]|0[1-9]|[1-9] : end positions of the alternatives that match
\* at i, in the order the regex engine tries them
MatchM(s, i) ==
    (IF At(s, i) = "1" /\ At(s, i + 1) \in {"0","1","2"} THEN <<i + 2>> ELSE <<>>)
    \o (IF At(s, i) = "0" /\ At(s, i + 1) \in Digits \ {"0"} THEN <<i + 2>> ELSE <<>>)
    \o (IF At(s, i) \in Digits \ {"0"} THEN <<i + 1>> ELSE <<>>)

\* %d is 3[0-1]|[1-2]\d|0[1-9]|[1-9]| [1-9]
MatchD(s, j) ==
    (IF At(s, j) = "3" /\ At(s, j + 1) \in {"0","1"} THEN <<j + 2>> ELSE <<>>)
    \o (IF At(s, j) \in {"1","2"} /\ At(s, j + 1) \in Digits THEN <<j + 2>> ELSE <<>>)
    \o (IF At(s, j) = "0" /\ At(s, j + 1) \in Digits \ {"0"} THEN <<j + 2>> ELSE <<>>)
    \o (IF At(s, j) \in Digits \ {"0"} THEN <<j + 1>> ELSE <<>>)
    \o (IF At(s, j) = " " /\ At(s, j + 1) \in Digits \ {"0"} THEN <<j + 2>> ELSE <<>>)

\* format_regex.match: the first month alternative after which a day
\* alternative matches, with the first such day alternative
RegexMatch(s) ==
    LET y  == MatchY(s)
        ms == IF y = 0 THEN <<>> ELSE MatchM(s, y)
        good == {k \in 1..Len(ms) : MatchD(s, ms[k]) # <<>>}
    IN  IF good = {} THEN [found |-> FALSE, m |-> 0, e |-> 0]
        ELSE LET k == CHOOSE k \in good : \A l \in good : k <= l
             IN  [found |-> TRUE, m |-> ms[k], e |-> MatchD(s, ms[k])[1]]

IsLeap(y) == y % 4 = 0 /\ (y % 100 # 0 \/ y % 400 = 0)

DaysInMonth(y, m) ==
    IF m = 2 THEN (IF IsLeap(y) THEN 29 ELSE 28)
    ELSE IF m \in {4, 6, 9, 11} THEN 30 ELSE 31

\* datetime(year, month, day)
ValidYMD(y, m, d) == y >= 1 /\ m \in 1..12 /\ d >= 1 /\ d <= DaysInMonth(y, m)

strptime(s) ==
    LET r == RegexMatch(s)
    IN  IF ~r.found THEN Raise("ValueError", <<"time data does not match format">>)
        ELSE IF r.e # Len(s) + 1 THEN Raise("ValueError", <<"unconverted data remains">>)
        ELSE LET y == ToInt(SubSeq(s, 1, 4))
                 m == ToInt(SubSeq(s, 5, r.m - 1))
                 d == ToInt(SubSeq(s, r.m, r.e - 1))
             IN  IF ValidYMD(y, m, d) THEN Ok(<<y, m, d>>)
                 ELSE Raise("ValueError", <<"out of range">>)

validate_date(date_str) ==
    IF strptime(date_str).ok THEN Ok(date_str) ELSE Raise("ValueError", MsgDate)

----------------------------------------------------------------------------
(* Merger and Presenter: process_inputs, lines 59-96 *)

\* Code point order of the characters that occur in date keys
CodePoint(c) == IF c \in Digits THEN 48 + DigitVal(c) ELSE 32

\* str < str
RECURSIVE StrLess(_, _)
StrLess(a, b) ==
    IF b = <<>> THEN FALSE
    ELSE IF a = <<>> THEN TRUE
    ELSE IF a[1] # b[1] THEN CodePoint(a[1]) < CodePoint(b[1])
    ELSE StrLess(Tail(a), Tail(b))

\* sorted(set)
RECURSIVE sorted(_)
sorted(S) ==
    IF S = {} THEN <<>>
    ELSE LET least == CHOOSE x \in S : \A y \in S \ {x} : StrLess(x, y)
         IN  <<least>> \o sorted(S \ {least})

\* A dict is the sequence of its <<key, value>> items in insertion order.
HasKey(d, k) == \E i \in 1..Len(d) : d[i][1] = k

SetItem(d, k, v) ==
    IF HasKey(d, k) THEN [i \in 1..Len(d) |-> IF d[i][1] = k THEN <<k, v>> ELSE d[i]]
    ELSE Append(d, <<k, v>>)

\* dict(pairs), and a dict display {k1: v1, k2: v2, ...}: later items win
RECURSIVE dict(_)
dict(pairs) ==
    IF pairs = <<>> THEN <<>>
    ELSE LET last == pairs[Len(pairs)]
         IN  SetItem(dict(SubSeq(pairs, 1, Len(pairs) - 1)), last[1], last[2])

\* d.get(k, default)
get(d, k, default) ==
    IF HasKey(d, k) THEN d[CHOOSE i \in 1..Len(d) : d[i][1] = k][2] ELSE default

\* set(dates) of zip(*views)
DateSet(views) == {views[i][1] : i \in 1..Len(views)}

Column(views, all_dates) ==
    [i \in 1..Len(all_dates) |-> get(dict(views), all_dates[i], 0)]

\* Merger with an inner join: only the dates both series have
Merger_inner(views1, views2) ==
    LET all_dates == sorted(DateSet(views1) \cap DateSet(views2))
    IN  [dates |-> all_dates,
         counts1 |-> Column(views1, all_dates),
         counts2 |-> Column(views2, all_dates)]

\* lines 60-70: the union of the dates, sorted, and the two aligned columns
Merger(views1, views2) ==
    LET all_dates == sorted(DateSet(views1) \cup DateSet(views2))
    IN  [dates |-> all_dates,
         counts1 |-> Column(views1, all_dates),
         counts2 |-> Column(views2, all_dates)]

\* f'{title} Views'
ViewsLabel(title) == title \o <<" Views">>

DateLabel == <<"Date">>

\* pd.DataFrame({...}): one column per key of the dict display
DataFrame(title1, title2, m) ==
    dict(<< <<DateLabel, m.dates>>,
            <<ViewsLabel(title1), m.counts1>>,
            <<ViewsLabel(title2), m.counts2>> >>)

\* pd.DataFrame()
EmptyDataFrame == <<>>

\* px.line(df, x='Date', y=[...]) with update_layout: the arguments given
Figure(title1, title2) ==
    [present |-> TRUE, x |-> DateLabel,
     y |-> <<ViewsLabel(title1), ViewsLabel(title2)>>,
     template |-> "plotly_dark", yanchor |-> "bottom", xanchor |-> "right"]

\* None, where a figure is expected
NoFigure ==
    [present |-> FALSE, x |-> <<>>, y |-> <<>>,
     template |-> "", yanchor |-> "", xanchor |-> ""]

MsgSuccess == <<"Analysis completed successfully!">>

\* lines 59-98: what process_inputs returns once both series are fetched
Present(title1, title2, views1, views2) ==
    [table |-> DataFrame(title1, title2, Merger(views1, views2)),
     chart |-> Figure(title1, title2),
     status |-> MsgSuccess]

----------------------------------------------------------------------------
(* Request Handler: wrapped_process around process_inputs *)

\* datetime.now() and now - timedelta(days=30), as strftime('%Y%m%d') gives them
TodayStr == <<"2","0","2","4","0","1","3","1">>

TodayMinus30Str == <<"2","0","2","4","0","1","0","1">>

\* lines 41-45
EffectiveDates(start_date, end_date) ==
    IF start_date = <<>> \/ end_date = <<>>
    THEN <<TodayMinus30Str, TodayStr>>
    ELSE <<start_date, end_date>>

\* Prepare with the titles extracted before the dates are validated
Prepare_titles_first(url1, url2, start_date, end_date) ==
    LET eff == EffectiveDates(start_date, end_date)
        sd == validate_date(eff[1])
        ed == validate_date(eff[2])
        t1 == extract_title(url1)
        t2 == extract_title(url2)
    IN  IF ~t1.ok THEN t1
        ELSE IF ~t2.ok THEN t2
        ELSE IF ~sd.ok THEN sd
        ELSE IF ~ed.ok THEN ed
        ELSE Ok(<<t1.val, t2.val, sd.val, ed.val>>)

\* lines 41-53: everything before the first fetch; Ok(<<title1, title2,
\* start_date, end_date>>) or the first exception raised
Prepare(url1, url2, start_date, end_date) ==
    LET eff == EffectiveDates(start_date, end_date)
        sd == validate_date(eff[1])
        ed == validate_date(eff[2])
        t1 == extract_title(url1)
        t2 == extract_title(url2)
    IN  IF ~sd.ok THEN sd
        ELSE IF ~ed.ok THEN ed
        ELSE IF ~t1.ok THEN t1
        ELSE IF ~t2.ok THEN t2
        ELSE Ok(<<t1.val, t2.val, sd.val, ed.val>>)

\* Fallback with the generic clause first: every failure is "unexpected"
Fallback_unexpected(e) ==
    [table |-> EmptyDataFrame,
     chart |-> NoFigure,
     status |-> <<"Unexpected error: ">> \o e.msg]

\* lines 144-147: the except clauses of wrapped_process
Fallback(e) ==
    [table |-> EmptyDataFrame,
     chart |-> NoFigure,
     status |-> IF e.exc = "ValueError" THEN <<"Error: ">> \o e.msg
                ELSE <<"Unexpected error: ">> \o e.msg]

\* lines 18-28: the body of get_pageviews, given the response requests.get
\* obtains for its arguments (the caching wrapper is CacheHit, CacheMiss and
\* CacheAfter)
get_pageviews(resp) ==
    IF resp.status = "404"
    THEN Raise("ValueError", <<"API error: ", "404 Client Error">>)
    ELSE IF resp.status = "down"
    THEN Raise("ValueError", <<"Error fetching pageviews: ", "connection failed">>)
    ELSE Ok([i \in 1..Len(resp.items) |->
                <<SubSeq(resp.items[i][1], 1, 8), resp.items[i][2]>>])

\* a cache keyed by the title alone
CacheKey_title_only(title, start_date, end_date) == <<title, <<>>, <<>>>>

\* the key functools.cache makes of the arguments
CacheKey(title, start_date, end_date) == <<title, start_date, end_date>>

\* line 19: the variable parts of the request URL
RequestUrl(title, start_date, end_date) == <<title, "/daily/", start_date, "/", end_date>>

\* a wrapper that stores nothing
CacheAfter_never(c, key, result) == c

\* a wrapper that also stores the outcome of a call that raised
CacheAfter_always(c, key, result) == (key :> result.val) @@ c

\* functools.cache, line 16: the wrapper stores what the call returns, and
\* nothing when it raises
CacheAfter(c, key, result) ==
    IF result.ok THEN (key :> result.val) @@ c ELSE c

----------------------------------------------------------------------------
(* Inputs and environment of the handler *)

\* hosting threads that may each run one wrapped_process at a time
Threads == 1 .. 2

\* the threads the hosting runtime uses (submit.click, lines 149-154)
Pool == IF hosting = "serial" THEN {1} ELSE Threads

UrlA == Prefix \o <<"A">>

UrlB == Prefix \o <<"B">>

\* "http://en.wikipedia.org/wiki/A"
UrlBad == <<"h","t","t","p">> \o SubSeq(Prefix, 6, Len(Prefix)) \o <<"A">>

UrlInputs == {UrlA, UrlB, UrlBad, NoneVal}

DateOk == <<"2","0","2","4","0","1","0","5">>

\* "2024-01-01"
DateBad == <<"2","0","2","4","-","0","1","-","0","1">>

DateInputs == {<<>>, DateOk, DateBad}

\* the submissions explored: every combination of the inputs when handlers run
\* one at a time, well-formed ones when they run in parallel
Forms ==
    IF hosting = "serial"
    THEN UrlInputs \X UrlInputs \X DateInputs \X DateInputs
    ELSE {<<u1, u2, d, d>> : u1 \in {UrlA, UrlB}, u2 \in {UrlA, UrlB}, d \in {<<>>, DateOk}}

Day1 == <<"2","0","2","4","0","1","0","1">>

Day2 == <<"2","0","2","4","0","1","0","2">>

\* item['timestamp'] of the remote's body: the date and the hour
Timestamp(day) == day \o <<"0","0">>

\* what the remote endpoint may answer to one request
Responses ==
    { [status |-> "200", items |-> << <<Timestamp(Day1), 5>> >>],
      [status |-> "200", items |-> << <<Timestamp(Day2), 7>>, <<Timestamp(Day1), 3>> >>],
      [status |-> "404", items |-> <<>>],
      [status |-> "down", items |-> <<>>] }

NoOut == [table |-> EmptyDataFrame, chart |-> NoFigure, status |-> <<>>]

Idle ==
    [pc |-> "idle", url1 |-> <<>>, url2 |-> <<>>, start |-> <<>>, end |-> <<>>,
     title1 |-> <<>>, title2 |-> <<>>, sd |-> <<>>, ed |-> <<>>,
     views1 |-> <<>>, got1 |-> FALSE, issued |-> 0, last |-> "", out |-> NoOut]

\* the key of the get_pageviews call thread w is in (line 56 or line 57)
KeyOf(w) ==
    CacheKey(IF workers[w].pc \in {"fetch1", "wait1"}
             THEN workers[w].title1 ELSE workers[w].title2,
             workers[w].sd, workers[w].ed)

\* the URL of the request thread w makes for that call
UrlOf(w) ==
    RequestUrl(IF workers[w].pc \in {"fetch1", "wait1"}
               THEN workers[w].title1 ELSE workers[w].title2,
               workers[w].sd, workers[w].ed)

InitShared ==
    /\ workers = [w \in Threads |-> Idle]
    /\ cache = [k \in {} |-> <<>>]
    /\ returned = {}
    /\ raised = {}
    /\ remote = [k \in {} |-> <<>>]
    /\ submissions = 0

NoArg == arg = <<>> /\ ret = NotRun

Init == InitShared /\ hosting = "serial" /\ endpoint = "changing" /\ NoArg

InitParallel == InitShared /\ hosting = "parallel" /\ endpoint = "changing" /\ NoArg

InitStable == InitShared /\ hosting = "parallel" /\ endpoint = "stable" /\ NoArg

----------------------------------------------------------------------------
(* Steps of one wrapped_process invocation.  The cache lookup and the cache  *)
(* store are each atomic; a thread can be suspended while its request is     *)
(* outstanding.  Everything else is local to the invocation.                 *)

\* submit.click fires wrapped_process on a free thread: lines 140-142 and
\* 41-53, up to the first call of get_pageviews
Submit(w, u1, u2, s, e) ==
    /\ submissions < MaxSubmissions
    /\ w \in Pool
    /\ workers[w].pc = "idle"
    /\ \A v \in Pool : v < w => workers[v].pc # "idle"
    /\ submissions' = submissions + 1
    /\ LET p == Prepare(u1, u2, s, e)
           in == [Idle EXCEPT !.url1 = u1, !.url2 = u2, !.start = s, !.end = e]
       IN  workers' = [workers EXCEPT ![w] =
               IF p.ok
               THEN [in EXCEPT !.pc = "fetch1",
                               !.title1 = p.val[1], !.title2 = p.val[2],
                               !.sd = p.val[3], !.ed = p.val[4]]
               ELSE [in EXCEPT !.pc = "done", !.out = Fallback(p)]]
    /\ UNCHANGED <<cache, returned, raised, remote, hosting, endpoint, arg, ret>>

\* get_pageviews finds its arguments in the cache and returns the stored list
CacheHit(w) ==
    /\ workers[w].pc \in {"fetch1", "fetch2"}
    /\ KeyOf(w) \in DOMAIN cache
    /\ LET me == workers[w]
           views == cache[KeyOf(w)]
       IN  workers' = [workers EXCEPT ![w] =
               IF me.pc = "fetch1"
               THEN [me EXCEPT !.pc = "fetch2", !.views1 = views, !.got1 = TRUE]
               ELSE [me EXCEPT !.pc = "done",
                               !.out = Present(me.title1, me.title2, me.views1, views)]]
    /\ returned' = returned \cup {KeyOf(w)}
    /\ UNCHANGED <<cache, raised, remote, submissions, hosting, endpoint, arg, ret>>

\* get_pageviews misses and issues requests.get (line 21)
CacheMiss(w) ==
    /\ workers[w].pc \in {"fetch1", "fetch2"}
    /\ KeyOf(w) \notin DOMAIN cache
    /\ workers' = [workers EXCEPT
           ![w].pc = IF @ = "fetch1" THEN "wait1" ELSE "wait2",
           ![w].issued = @ + 1]
    /\ UNCHANGED <<cache, returned, raised, remote, submissions, hosting, endpoint, arg, ret>>

\* The remote answers the outstanding request of w with r: a stable endpoint
\* as it answered that URL before, a changing one (data updated, outages) in
\* any way.
Answers(w, r) ==
    /\ workers[w].pc \in {"wait1", "wait2"}
    /\ UrlOf(w) \in DOMAIN remote => r = remote[UrlOf(w)]
    /\ remote' = IF endpoint = "stable" THEN (UrlOf(w) :> r) @@ remote ELSE remote

\* lines 22-24: the body is parsed, the wrapper stores and returns the list
RespondOk(w, r) ==
    /\ Answers(w, r)
    /\ get_pageviews(r).ok
    /\ LET me == workers[w]
           views == get_pageviews(r).val
       IN  workers' = [workers EXCEPT ![w] =
               IF me.pc = "wait1"
               THEN [me EXCEPT !.pc = "fetch2", !.views1 = views, !.got1 = TRUE]
               ELSE [me EXCEPT !.pc = "done",
                               !.out = Present(me.title1, me.title2, me.views1, views)]]
    /\ cache' = CacheAfter(cache, KeyOf(w), get_pageviews(r))
    /\ returned' = returned \cup {KeyOf(w)}
    /\ UNCHANGED <<raised, submissions, hosting, endpoint, arg, ret>>

\* lines 25-28 and 144-147: get_pageviews raises, wrapped_process catches
RespondFail(w, r) ==
    /\ Answers(w, r)
    /\ ~get_pageviews(r).ok
    /\ workers' = [workers EXCEPT ![w].pc = "done", ![w].last = r.status,
                                  ![w].out = Fallback(get_pageviews(r))]
    /\ cache' = CacheAfter(cache, KeyOf(w), get_pageviews(r))
    /\ raised' = raised \cup {KeyOf(w)}
    /\ UNCHANGED <<returned, submissions, hosting, endpoint, arg, ret>>

\* the outputs are rendered and the thread is free again
Return(w) ==
    /\ workers[w].pc = "done"
    /\ workers' = [workers EXCEPT ![w] = Idle]
    /\ UNCHANGED <<cache, returned, raised, remote, submissions, hosting, endpoint, arg, ret>>

Next ==
    \/ \E w \in Threads, f \in Forms : Submit(w, f[1], f[2], f[3], f[4])
    \/ \E w \in Threads : CacheHit(w)
    \/ \E w \in Threads : CacheMiss(w)
    \/ \E w \in Threads, r \in Responses : RespondOk(w, r)
    \/ \E w \in Threads, r \in Responses : RespondFail(w, r)
    \/ \E w \in Threads : Return(w)

\* submissions handled one at a time; the endpoint's answers may change
Spec == Init /\ [][Next]_vars

\* submissions handled in parallel; the endpoint's answers may change
SpecParallel == InitParallel /\ [][Next]_vars

\* submissions handled in parallel; the endpoint answers each key the same
\* way throughout
SpecStable == InitStable /\ [][Next]_vars

----------------------------------------------------------------------------
(* The pure functions on their own: the argument is drawn from a bounded   *)
(* set, one step applies the function.                                     *)

handler == <<workers, cache, returned, raised, remote, submissions, hosting, endpoint>>

Applied == ret # NotRun

\* the characters a URL remainder is made of
RemChars == {"w", "i", "k", "/", "a"}

\* "http://en.wikipedia.org/wiki/", "https://en.wikipedia.org/wiki/" or nothing,
\* then a remainder
UrlArgs ==
    {p \o r : p \in {Prefix, <<"h","t","t","p">> \o SubSeq(Prefix, 6, Len(Prefix)), <<>>},
              r \in SeqsUpTo(RemChars, MaxRem)}

InitExtract == InitShared /\ hosting = "serial" /\ endpoint = "changing" /\ arg \in UrlArgs /\ ret = NotRun

ApplyExtract ==
    /\ ~Applied
    /\ ret' = extract_title(arg)
    /\ UNCHANGED <<handler, arg>>

SpecExtract == InitExtract /\ [][ApplyExtract]_vars

YearArgs == { <<"2","0","2","4">>, <<"2","0","2","3">>, <<"0","0","0","0">> }

TailChars == {"0", "1", "2", "3", "9", " ", "-"}

\* a four-digit year, then up to MaxTail more characters
DateArgs == {y \o t : y \in YearArgs, t \in SeqsUpTo(TailChars, MaxTail)}

InitDate == InitShared /\ hosting = "serial" /\ endpoint = "changing" /\ arg \in DateArgs /\ ret = NotRun

ApplyValidate ==
    /\ ~Applied
    /\ ret' = validate_date(arg)
    /\ UNCHANGED <<handler, arg>>

SpecDate == InitDate /\ [][ApplyValidate]_vars

Day3 == <<"2","0","2","4","0","1","1","0">>

\* the (date, views) pairs a fetched series is made of
SeriesItems == {Day1, Day2, Day3} \X {0, 5}

SeriesArgs == SeqsUpTo(SeriesItems, MaxSeries)

InitMerge == InitShared /\ hosting = "serial" /\ endpoint = "changing" /\ arg \in SeriesArgs \X SeriesArgs /\ ret = NotRun

ApplyMerger ==
    /\ ~Applied
    /\ ret' = Ok(Merger(arg[1], arg[2]))
    /\ UNCHANGED <<handler, arg>>

SpecMerge == InitMerge /\ [][ApplyMerger]_vars

----------------------------------------------------------------------------
(* Claims about the handler *)

Done(w) == workers[w].pc = "done"

ErrorOut(message) ==
    [table |-> EmptyDataFrame, chart |-> NoFigure, status |-> <<"Error: ">> \o message]

\* thread w is inside get_pageviews, about to look its arguments up
AtLookup(w) == workers[w].pc \in {"fetch1", "fetch2"}

\* in this step thread w issues an outbound request
Issues(w) == AtLookup(w) /\ workers'[w].issued = workers[w].issued + 1

\* in this step the call of thread w returns the list stored in the cache
ReturnsStored(w) ==
    /\ workers'[w].issued = workers[w].issued
    /\ IF workers[w].pc = "fetch1"
       THEN workers'[w].got1 /\ workers'[w].views1 = cache[KeyOf(w)]
       ELSE workers'[w].out = Present(workers[w].title1, workers[w].title2,
                                      workers[w].views1, cache[KeyOf(w)])

\* C1 as stated: once a get_pageviews call for a tuple has completed, whether
\* it returned or raised, no later call with that tuple issues an outbound
\* request.
C1_NoSecondRequest ==
    [][\A w \in Threads : Issues(w) => KeyOf(w) \notin returned \cup raised]_vars

\* C1 amended: once a get_pageviews call for a tuple has returned, every later
\* call with that tuple issues no outbound request and returns the stored
\* list; a call with a tuple for which no call has returned issues a request.
C1_NoSecondRequestAfterSuccess ==
    [][\A w \in Threads :
          /\ Issues(w) => KeyOf(w) \notin returned
          /\ (AtLookup(w) /\ workers'[w] # workers[w] /\ KeyOf(w) \in returned)
                => ReturnsStored(w)
          /\ (AtLookup(w) /\ workers'[w] # workers[w] /\ KeyOf(w) \notin returned)
                => Issues(w)]_vars

\* a first fetch served from the cache: no request issued, the list obtained
C1_Witness ==
    \E w \in Threads :
        workers[w].pc = "fetch2" /\ workers[w].got1 /\ workers[w].issued = 0

\* C2: a finished invocation whose inputs fail validation or extraction has
\* issued no request and returns the empty fallback with "Error: <message>"
\* (ValueError) or "Unexpected error: <message>" (anything else); one whose
\* fetch failed returns the empty fallback with "Error: ...", beginning
\* "Error: API error:" for a non-success status, and issued no request after
\* the failure; every finished invocation returns a status.
C2_FailureAbortsWithFallback ==
    \A w \in Threads : Done(w) =>
        LET me == workers[w]
            p == Prepare(me.url1, me.url2, me.start, me.end)
        IN  /\ ~p.ok =>
                 /\ me.issued = 0
                 /\ me.out.table = EmptyDataFrame
                 /\ me.out.chart = NoFigure
                 /\ me.out.status =
                       (IF p.exc = "ValueError" THEN <<"Error: ">>
                        ELSE <<"Unexpected error: ">>) \o p.msg
            /\ me.last # "" =>
                 /\ p.ok
                 /\ me.out.table = EmptyDataFrame
                 /\ me.out.chart = NoFigure
                 /\ me.out.status[1] = "Error: "
                 /\ me.last = "404" => me.out.status[2] = "API error: "
                 /\ ~me.got1 => me.issued = 1
                 /\ me.issued \in {1, 2}
            /\ (p.ok /\ me.last = "") => me.out.status = MsgSuccess
            /\ me.out.status # <<>>

\* the second fetch failed with a non-success status after the first succeeded
C2_Witness ==
    \E w \in Threads : Done(w) /\ workers[w].got1 /\ workers[w].last = "404"

\* an 8-digit string that is a calendar date
IsYYYYMMDD(s) ==
    /\ Len(s) = 8
    /\ \A i \in 1..8 : s[i] \in Digits
    /\ ValidYMD(ToInt(SubSeq(s, 1, 4)), ToInt(SubSeq(s, 5, 6)), ToInt(SubSeq(s, 7, 8)))

BadDate(d) == d # <<>> /\ ~IsYYYYMMDD(d)

\* C3 as stated: a finished invocation (of URL strings) one of whose date
\* inputs is non-empty and not a valid YYYYMMDD date returns the date error
\* with the empty fallback, and an invocation runs with the default dates
\* only when both date inputs are empty.
C3_BadDateAlwaysRejected ==
    \A w \in Threads :
        /\ (/\ Done(w)
            /\ workers[w].url1 # NoneVal /\ workers[w].url2 # NoneVal
            /\ BadDate(workers[w].start) \/ BadDate(workers[w].end))
              => workers[w].out = ErrorOut(MsgDate)
        /\ (workers[w].sd = TodayMinus30Str /\ workers[w].ed = TodayStr)
              => (workers[w].start = <<>> /\ workers[w].end = <<>>)

LacksPrefix(url) == url # NoneVal /\ ~startswith(url, Prefix)

\* C4 as stated: a finished invocation whose first URL lacks the prefix
\* returns the URL error with the empty fallback, whatever the dates are.
C4_BadUrlReportedFirst ==
    \A w \in Threads :
        (Done(w) /\ LacksPrefix(workers[w].url1)) => workers[w].out = ErrorOut(MsgUrl)

\* C4 amended: such an invocation returns the URL error when a date input is
\* empty or both pass date validation, and the date error otherwise (the
\* dates are validated before the titles are extracted); it issues no request.
C4_BadUrlReportedAfterDates ==
    \A w \in Threads :
        (Done(w) /\ LacksPrefix(workers[w].url1)) =>
            LET me == workers[w]
            IN  /\ me.issued = 0
                /\ me.out =
                     IF \/ me.start = <<>>
                        \/ me.end = <<>>
                        \/ validate_date(me.start).ok /\ validate_date(me.end).ok
                     THEN ErrorOut(MsgUrl)
                     ELSE ErrorOut(MsgDate)

\* a bad first URL together with a malformed date: the date error is returned
C4_Witness ==
    \E w \in Threads :
        /\ Done(w)
        /\ workers[w].url1 = UrlBad
        /\ workers[w].start = DateBad
        /\ workers[w].end = DateOk
        /\ workers[w].out = ErrorOut(MsgDate)

\* C8 as stated: every successful invocation returns a table of three
\* columns, the date and one labelled column per submitted article, and a
\* chart with two series.
C8_ThreeColumns ==
    \A w \in Threads :
        (Done(w) /\ workers[w].out.status = MsgSuccess) =>
            LET out == workers[w].out
            IN  /\ Len(out.table) = 3
                /\ out.table[1][1] = DateLabel
                /\ out.table[2][1] = ViewsLabel(workers[w].title1)
                /\ out.table[3][1] = ViewsLabel(workers[w].title2)
                /\ out.chart.present
                /\ Len(out.chart.y) = 2

\* the lists get_pageviews can return
OkValues == {get_pageviews(r).val : r \in {q \in Responses : get_pageviews(q).ok}}

Alone(url1, url2, start_date, end_date) ==
    LET p == Prepare(url1, url2, start_date, end_date)
    IN  IF ~p.ok THEN Fallback(p)
        ELSE LET u1 == RequestUrl(p.val[1], p.val[3], p.val[4])
                 u2 == RequestUrl(p.val[2], p.val[3], p.val[4])
             IN  IF u1 \notin DOMAIN remote THEN NoOut
                 ELSE IF ~get_pageviews(remote[u1]).ok THEN Fallback(get_pageviews(remote[u1]))
                 ELSE IF u2 \notin DOMAIN remote THEN NoOut
                 ELSE IF ~get_pageviews(remote[u2]).ok THEN Fallback(get_pageviews(remote[u2]))
                 ELSE Present(p.val[1], p.val[2],
                              get_pageviews(remote[u1]).val, get_pageviews(remote[u2]).val)

\* C10: with an endpoint that answers each URL the same way throughout, every
\* invocation, however it interleaves with another, returns what it returns
\* when run alone against those answers, and every cache entry is the list
\* made of the endpoint's answer for the entry's tuple.
C10_ReentrantSafe ==
    /\ \A w \in Threads : Done(w) =>
          workers[w].out =
              Alone(workers[w].url1, workers[w].url2, workers[w].start, workers[w].end)
    /\ \A k \in DOMAIN cache :
          /\ Len(k) = 3
          /\ RequestUrl(k[1], k[2], k[3]) \in DOMAIN remote
          /\ get_pageviews(remote[RequestUrl(k[1], k[2], k[3])]) = Ok(cache[k])

\* both threads have finished successfully after both requested the same tuple
C10_Witness ==
    /\ \A w \in Threads : Done(w) /\ workers[w].out.status = MsgSuccess
    /\ workers[1].title1 = workers[2].title1
    /\ workers[1].sd = workers[2].sd
    /\ workers[1].issued = 2
    /\ workers[2].issued = 1

----------------------------------------------------------------------------
(* Claims about the pure functions *)

\* C5 as stated: for a URL with the prefix extract_title returns the whole
\* remainder after the prefix; for any other URL it raises InvalidInput.
C5_WholeRemainder ==
    Applied =>
        ret = IF startswith(arg, Prefix)
              THEN Ok(SubSeq(arg, Len(Prefix) + 1, Len(arg)))
              ELSE Raise("ValueError", MsgUrl)

\* C6 as stated: validate_date returns a string that is 8 digits forming a
\* calendar date unchanged, and raises InvalidInput for every other string.
C6_ExactlyYYYYMMDD ==
    Applied =>
        ret = IF IsYYYYMMDD(arg) THEN Ok(arg) ELSE Raise("ValueError", MsgDate)

\* the count a series has for a date (its last item for the date), 0 if none
CountIn(views, d) ==
    LET at == {i \in 1..Len(views) : views[i][1] = d}
    IN  IF at = {} THEN 0
        ELSE views[CHOOSE i \in at : \A j \in at : j <= i][2]

\* C7: the merged table has one row per date of the union of the two date
\* sets, in strictly ascending order, and each row holds each series' count
\* for the date, or 0 when the series has none.
C7_UnionAlignedTable ==
    Applied =>
        LET m == ret.val
            union == DateSet(arg[1]) \cup DateSet(arg[2])
            n == Len(m.dates)
        IN  /\ n = Cardinality(union)
            /\ {m.dates[i] : i \in 1..n} = union
            /\ \A i \in 1..(n - 1) : StrLess(m.dates[i], m.dates[i + 1])
            /\ Len(m.counts1) = n /\ Len(m.counts2) = n
            /\ \A i \in 1..n :
                  /\ m.counts1[i] = CountIn(arg[1], m.dates[i])
                  /\ m.counts2[i] = CountIn(arg[2], m.dates[i])

\* two non-empty series with no date in common have been merged
C7_Witness ==
    /\ Applied
    /\ arg[1] # <<>> /\ arg[2] # <<>>
    /\ DateSet(arg[1]) \cap DateSet(arg[2]) = {}
    /\ Len(ret.val.dates) >= 2

====
